---- MODULE Spec2Model ----
(***************************************************************************)
(* Model of src/airtravel.py: Flight (flight number validation, seat      *)
(* designator parsing, seat allocation and relocation, availability) and  *)
(* the Aircraft variants with their seating plans.                        *)
(*                                                                         *)
(* A Python str is a sequence of one-character strings, so that slicing,  *)
(* str.isalpha/isupper/isdigit and int() are computed character by        *)
(* character.  "U+4E2D" stands for one character, the CJK letter U+4E2D:  *)
(* a letter (isalpha) that has no case.                                   *)
(***************************************************************************)
EXTENDS Integers, Sequences, FiniteSets, TLC

VARIABLES
    number,     \* Flight._number, NoneStr before a Flight exists
    aircraft,   \* Flight._aircraft: the variant of the bound aircraft
    seating,    \* Flight._seating: index 0 is None, index r the dict of row r
    last,       \* the last call: operation, arguments, exception, return value
    before,     \* the value of seating when the last call started
    reversal,   \* TRUE iff the last call is relocate_passenger(B, A) made right
                \* after a relocate_passenger(A, B) that succeeded
    printed,    \* the calls of card_printer that the last call made, in order
    threads     \* the calls in progress of concurrent callers, NoThreads if
                \* every call runs from start to end on its own

vars == <<number, aircraft, seating, last, before, reversal, printed, threads>>

-----------------------------------------------------------------------------
(* Bounds of the model *)

\* seating plan of the third Aircraft subclass: range(1, PlanRows + 1)
PlanRows == 2
\* ... and the first PlanLetters letters of the alphabet
PlanLetters == 1
\* longest string of the exhaustive part of FlightNumbers
MaxNumberLen == 4
\* longest row text of the exhaustive part of SeatTexts
MaxRowTextLen == 3

\* the number of calls that concurrent callers make on one Flight
MaxCalls == 3

-----------------------------------------------------------------------------
(* Python values *)

\* None as an occupant, an exception or a return value
None == "None"
\* None as a list element (_seating[0]), and _seating before a Flight exists
NoneRow == <<>>
\* None in the place of a str (a str is a sequence of characters)
NoneStr == <<"None">>

\* character classes of str.isalpha, str.isupper, str.isdigit, str.strip
UPPER == {"A", "B", "C", "D", "E", "F", "G", "H", "I", "J", "K", "L", "M",
          "N", "O", "P", "Q", "R", "S", "T", "U", "V", "W", "X", "Y", "Z"}
LOWER == {"a", "b", "c", "d", "e", "f", "g", "h", "i", "j", "k", "l", "m",
          "n", "o", "p", "q", "r", "s", "t", "u", "v", "w", "x", "y", "z"}
UNCASED == {"U+4E2D"}
DIGITS == {"0", "1", "2", "3", "4", "5", "6", "7", "8", "9"}
WHITESPACE == {" "}

DigitValue == [c \in DIGITS |->
    CASE c = "0" -> 0 [] c = "1" -> 1 [] c = "2" -> 2 [] c = "3" -> 3
      [] c = "4" -> 4 [] c = "5" -> 5 [] c = "6" -> 6 [] c = "7" -> 7
      [] c = "8" -> 8 [] c = "9" -> 9]

\* s.isalpha(): at least one character and all of them letters
isalpha(s) == Len(s) > 0 /\ \A i \in 1..Len(s) : s[i] \in UPPER \cup LOWER \cup UNCASED

\* s.isupper(): at least one cased character and no lowercase one
isupper(s) == (\E i \in 1..Len(s) : s[i] \in UPPER) /\ (\A i \in 1..Len(s) : s[i] \notin LOWER)

\* s.isdigit(): at least one character and all of them digits
isdigit(s) == Len(s) > 0 /\ \A i \in 1..Len(s) : s[i] \in DIGITS

\* s[:n] and s[n:] for n >= 0
Prefix(s, n) == SubSeq(s, 1, IF n < Len(s) THEN n ELSE Len(s))
Suffix(s, n) == SubSeq(s, n + 1, Len(s))

RECURSIVE lstrip(_)
lstrip(s) == IF Len(s) > 0 /\ s[1] \in WHITESPACE THEN lstrip(Tail(s)) ELSE s

RECURSIVE rstrip(_)
rstrip(s) == IF Len(s) > 0 /\ s[Len(s)] \in WHITESPACE THEN rstrip(SubSeq(s, 1, Len(s) - 1)) ELSE s

strip(s) == rstrip(lstrip(s))

\* value of a string of digits and underscores, underscores skipped
RECURSIVE DecimalValue(_)
DecimalValue(s) ==
    IF Len(s) = 0 THEN 0
    ELSE IF s[Len(s)] = "_" THEN DecimalValue(SubSeq(s, 1, Len(s) - 1))
    ELSE 10 * DecimalValue(SubSeq(s, 1, Len(s) - 1)) + DigitValue[s[Len(s)]]

\* int(s): surrounding whitespace is stripped, then an optional sign, then
\* digits, where single underscores may separate digits; anything else
\* raises ValueError
int(s) ==
    LET t == strip(s)
        signed == Len(t) > 0 /\ t[1] \in {"+", "-"}
        body == IF signed THEN Tail(t) ELSE t
        wellFormed ==
            /\ Len(body) > 0
            /\ \A i \in 1..Len(body) : body[i] \in DIGITS \cup {"_"}
            /\ body[1] # "_"
            /\ body[Len(body)] # "_"
            /\ \A i \in 1..(Len(body) - 1) : ~(body[i] = "_" /\ body[i + 1] = "_")
    IN  IF ~wellFormed THEN [raised |-> "ValueError", value |-> 0]
        ELSE [raised |-> None,
              value |-> IF signed /\ t[1] = "-" THEN 0 - DecimalValue(body)
                        ELSE DecimalValue(body)]

-----------------------------------------------------------------------------
(* Exceptions: the ValueError messages of the source, and the IndexError of *)
(* seat[-1] on an empty string *)

NoAirlineCode == "No airline code in '{}'"
InvalidAirlineCode == "Invalid airline code '{}'"
InvalidRouteNumber == "Invalid route number '{}'"
InvalidSeatLetterMsg == "Invalid seat letter '{}'"
InvalidSeatRowMsg == "Invalid seat row '{}'"
InvalidRowNumberMsg == "Invalid row number '{}'"
SeatAlreadyOccupied == "Seat already occupied '{}'"
NoPassengerToRelocate == "No passenger to relocate from '{}'"
SeatAlreadyOccupiedTo == "Seat '{}' already occupied"
IndexError == "IndexError: string index out of range"

-----------------------------------------------------------------------------
(* Aircraft variants *)

Alphabet == <<"A", "B", "C", "D", "E", "F", "G", "H", "I", "J", "K">>

\* the classes of the source, and one more subclass of Aircraft with a
\* small plan
AircraftVariants == {"Boeing777", "AirbusA319", "Aircraft"}

model(a) ==
    CASE a = "Boeing777" -> "Boeing 777"
      [] a = "AirbusA319" -> "Airbus A319"
      [] OTHER -> "Aircraft"

\* seating_plan(): the rows (a range, ascending) and the seat letters (a str)
seating_plan(a) ==
    CASE a = "Boeing777" ->
            [rows |-> 1..55, seats |-> <<"A", "B", "C", "D", "E", "F", "G", "H", "J", "K">>]
      [] a = "AirbusA319" ->
            [rows |-> 1..22, seats |-> <<"A", "B", "C", "D", "E", "F">>]
      [] OTHER ->
            [rows |-> 1..PlanRows, seats |-> SubSeq(Alphabet, 1, PlanLetters)]

Range(s) == {s[i] : i \in 1..Len(s)}

\* as num_seats, with + in the place of *
num_seats_Sum(a) == Cardinality(seating_plan(a).rows) + Len(seating_plan(a).seats)

\* len(row) * len(row_seats)
num_seats(a) == Cardinality(seating_plan(a).rows) * Len(seating_plan(a).seats)

-----------------------------------------------------------------------------
(* Calls *)

Call(op, args, raised, ret) == [op |-> op, args |-> args, raised |-> raised, ret |-> ret]

NoCall == Call("none", <<>>, None, None)

\* no concurrent callers
NoThreads == <<>>

\* a relocation that succeeded
IsRelocation(c) == c.op = "relocate_passenger" /\ c.raised = None

\* the bookkeeping of a call c that starts in the current state
Record(c) ==
    /\ last' = c
    /\ before' = seating
    /\ reversal' = /\ IsRelocation(last)
                   /\ c.op = "relocate_passenger"
                   /\ c.args = <<last.args[2], last.args[1]>>
    /\ printed' = <<>>
    /\ UNCHANGED threads

-----------------------------------------------------------------------------
(* Flight.__init__ *)

\* the exception of the three checks on the flight number, or None
FlightNumberError(n) ==
    IF ~isalpha(Prefix(n, 2)) THEN NoAirlineCode
    ELSE IF ~isupper(Prefix(n, 2)) THEN InvalidAirlineCode
    ELSE IF ~(isdigit(Suffix(n, 2)) /\ int(Suffix(n, 2)).value <= 9999) THEN InvalidRouteNumber
    ELSE None

\* [None] + [{letter: None for letter in seats} for _ in rows]
EmptySeating(a) ==
    LET plan == seating_plan(a)
    IN  [i \in 0..Cardinality(plan.rows) |->
            IF i = 0 THEN NoneRow ELSE [letter \in Range(plan.seats) |-> None]]

\* Flight(n, a): on an exception no object exists
Flight(n, a) ==
    /\ number = NoneStr
    /\ LET err == FlightNumberError(n)
       IN  /\ number' = IF err = None THEN n ELSE NoneStr
           /\ aircraft' = IF err = None THEN a ELSE None
           /\ seating' = IF err = None THEN EmptySeating(a) ELSE NoneRow
           /\ Record(Call("Flight", <<n, a>>, err, None))

\* Flight.number(), Flight.airline(), Flight.aircraft_model()
airline == Prefix(number, 2)
aircraft_model == model(aircraft)

-----------------------------------------------------------------------------
(* Flight._parse_seat *)

\* as _parse_seat, with the row parsed and checked before the letter
_parse_seat_RowFirst(seat) ==
    LET plan == seating_plan(aircraft)
    IN  IF Len(seat) = 0 THEN [raised |-> IndexError, ret |-> None]
        ELSE LET letter == seat[Len(seat)]
                 row_text == SubSeq(seat, 1, Len(seat) - 1)
                 row == int(row_text)
             IN  IF row.raised # None
                     THEN [raised |-> InvalidSeatRowMsg, ret |-> None]
                 ELSE IF row.value \notin plan.rows
                     THEN [raised |-> InvalidRowNumberMsg, ret |-> None]
                 ELSE IF letter \notin Range(plan.seats)
                     THEN [raised |-> InvalidSeatLetterMsg, ret |-> None]
                 ELSE [raised |-> None, ret |-> [row |-> row.value, letter |-> letter]]

\* as _parse_seat, with the row checked against the last row only
_parse_seat_UpperBoundOnly(seat) ==
    LET plan == seating_plan(aircraft)
    IN  IF Len(seat) = 0 THEN [raised |-> IndexError, ret |-> None]
        ELSE LET letter == seat[Len(seat)]
                 row_text == SubSeq(seat, 1, Len(seat) - 1)
                 row == int(row_text)
             IN  IF letter \notin Range(plan.seats)
                     THEN [raised |-> InvalidSeatLetterMsg, ret |-> None]
                 ELSE IF row.raised # None
                     THEN [raised |-> InvalidSeatRowMsg, ret |-> None]
                 ELSE IF row.value > Cardinality(plan.rows)
                     THEN [raised |-> InvalidRowNumberMsg, ret |-> None]
                 ELSE [raised |-> None, ret |-> [row |-> row.value, letter |-> letter]]

\* the exception raised, or the pair (row, letter) returned
_parse_seat(seat) ==
    LET plan == seating_plan(aircraft)
    IN  IF Len(seat) = 0 THEN [raised |-> IndexError, ret |-> None]
        ELSE LET letter == seat[Len(seat)]
                 row_text == SubSeq(seat, 1, Len(seat) - 1)
                 row == int(row_text)
             IN  IF letter \notin Range(plan.seats)
                     THEN [raised |-> InvalidSeatLetterMsg, ret |-> None]
                 ELSE IF row.raised # None
                     THEN [raised |-> InvalidSeatRowMsg, ret |-> None]
                 ELSE IF row.value \notin plan.rows
                     THEN [raised |-> InvalidRowNumberMsg, ret |-> None]
                 ELSE [raised |-> None, ret |-> [row |-> row.value, letter |-> letter]]

\* a call of _parse_seat on the flight
ParseSeat(seat) ==
    /\ number # NoneStr
    /\ LET p == _parse_seat(seat)
       IN  Record(Call("_parse_seat", <<seat>>, p.raised, p.ret))
    /\ UNCHANGED <<number, aircraft, seating>>

-----------------------------------------------------------------------------
(* Flight.allocate_seat, Flight.relocate_passenger *)

\* a call that raises: the exception propagates, nothing is assigned
Raise(op, args, exc) ==
    /\ Record(Call(op, args, exc, None))
    /\ UNCHANGED <<number, aircraft, seating>>

\* as allocate_seat, without the check of the occupant
allocate_seat_Overwrite(seat, passenger) ==
    /\ number # NoneStr
    /\ LET p == _parse_seat(seat)
           args == <<seat, passenger>>
       IN  IF p.raised # None THEN Raise("allocate_seat", args, p.raised)
           ELSE /\ seating' = [seating EXCEPT ![p.ret.row][p.ret.letter] = passenger]
                /\ Record(Call("allocate_seat", args, None, None))
                /\ UNCHANGED <<number, aircraft>>

\* as allocate_seat, with a second check that refuses a passenger who holds
\* a seat already
allocate_seat_OncePerName(seat, passenger) ==
    /\ number # NoneStr
    /\ LET p == _parse_seat(seat)
           args == <<seat, passenger>>
           plan == seating_plan(aircraft)
       IN  IF p.raised # None THEN Raise("allocate_seat", args, p.raised)
           ELSE IF seating[p.ret.row][p.ret.letter] # None
               THEN Raise("allocate_seat", args, SeatAlreadyOccupied)
           ELSE IF \E r \in plan.rows, l \in Range(plan.seats) : seating[r][l] = passenger
               THEN Raise("allocate_seat", args, SeatAlreadyOccupied)
           ELSE /\ seating' = [seating EXCEPT ![p.ret.row][p.ret.letter] = passenger]
                /\ Record(Call("allocate_seat", args, None, None))
                /\ UNCHANGED <<number, aircraft>>

\* as allocate_seat, with "if self._seating[row][letter]" as the check of the
\* occupant: a seat that holds '' counts as empty
allocate_seat_Truthy(seat, passenger) ==
    /\ number # NoneStr
    /\ LET p == _parse_seat(seat)
           args == <<seat, passenger>>
       IN  IF p.raised # None THEN Raise("allocate_seat", args, p.raised)
           ELSE IF seating[p.ret.row][p.ret.letter] \notin {None, ""}
               THEN Raise("allocate_seat", args, SeatAlreadyOccupied)
           ELSE /\ seating' = [seating EXCEPT ![p.ret.row][p.ret.letter] = passenger]
                /\ Record(Call("allocate_seat", args, None, None))
                /\ UNCHANGED <<number, aircraft>>

allocate_seat(seat, passenger) ==
    /\ number # NoneStr
    /\ LET p == _parse_seat(seat)
           args == <<seat, passenger>>
       IN  IF p.raised # None THEN Raise("allocate_seat", args, p.raised)
           ELSE IF seating[p.ret.row][p.ret.letter] # None
               THEN Raise("allocate_seat", args, SeatAlreadyOccupied)
           ELSE /\ seating' = [seating EXCEPT ![p.ret.row][p.ret.letter] = passenger]
                /\ Record(Call("allocate_seat", args, None, None))
                /\ UNCHANGED <<number, aircraft>>

\* relocate_passenger with its steps as parameters: whether to_seat is parsed
\* before the occupant of from_seat is checked, whether a relocation onto
\* the same seat returns at once, and the map that a refused destination and
\* a completed relocation leave, as operators of the map and the two seats
Relocation(from_seat, to_seat, parseBoth, selfReturns, Refused(_, _, _), Moved(_, _, _)) ==
    /\ number # NoneStr
    /\ LET f == _parse_seat(from_seat)
           t == _parse_seat(to_seat)
           args == <<from_seat, to_seat>>
       IN  IF f.raised # None THEN Raise("relocate_passenger", args, f.raised)
           ELSE IF parseBoth /\ t.raised # None
               THEN Raise("relocate_passenger", args, t.raised)
           ELSE IF seating[f.ret.row][f.ret.letter] = None
               THEN Raise("relocate_passenger", args, NoPassengerToRelocate)
           ELSE IF t.raised # None THEN Raise("relocate_passenger", args, t.raised)
           ELSE IF selfReturns /\ f.ret = t.ret
               THEN /\ Record(Call("relocate_passenger", args, None, None))
                    /\ UNCHANGED <<number, aircraft, seating>>
           ELSE IF seating[t.ret.row][t.ret.letter] # None
               THEN /\ seating' = Refused(seating, f.ret, t.ret)
                    /\ Record(Call("relocate_passenger", args, SeatAlreadyOccupiedTo, None))
                    /\ UNCHANGED <<number, aircraft>>
           ELSE /\ seating' = Moved(seating, f.ret, t.ret)
                /\ Record(Call("relocate_passenger", args, None, None))
                /\ UNCHANGED <<number, aircraft>>

Same(s, f, t) == s
Cleared(s, f, t) == [s EXCEPT ![f.row][f.letter] = None]
Copied(s, f, t) == [s EXCEPT ![t.row][t.letter] = s[f.row][f.letter]]
CopiedThenCleared(s, f, t) == Cleared(Copied(s, f, t), f, t)
ClearedThenCopied(s, f, t) == Copied(Cleared(s, f, t), f, t)
CopiedThenDeleted(s, f, t) ==
    [Copied(s, f, t) EXCEPT ![f.row] =
        [letter \in (DOMAIN s[f.row]) \ {f.letter} |-> Copied(s, f, t)[f.row][letter]]]
CopiedToFromLetter(s, f, t) == Cleared([s EXCEPT ![t.row][f.letter] = s[f.row][f.letter]], f, t)

\* as relocate_passenger, with the two assignments in the other order
relocate_passenger_ClearThenCopy(from_seat, to_seat) ==
    Relocation(from_seat, to_seat, FALSE, FALSE, Same, ClearedThenCopied)

\* as relocate_passenger, with from_seat cleared before the destination is checked
relocate_passenger_ClearFirst(from_seat, to_seat) ==
    Relocation(from_seat, to_seat, FALSE, FALSE, Cleared, CopiedThenCleared)

\* as relocate_passenger, without the assignment that clears from_seat
relocate_passenger_NoClear(from_seat, to_seat) ==
    Relocation(from_seat, to_seat, FALSE, FALSE, Same, Copied)

\* as relocate_passenger, with "del" of the key of from_seat in the place of
\* the assignment of None
relocate_passenger_DelKey(from_seat, to_seat) ==
    Relocation(from_seat, to_seat, FALSE, FALSE, Same, CopiedThenDeleted)

\* as relocate_passenger, with from_letter as the letter of the destination
relocate_passenger_FromLetter(from_seat, to_seat) ==
    Relocation(from_seat, to_seat, FALSE, FALSE, Same, CopiedToFromLetter)

\* as relocate_passenger, with both seats parsed before any check of occupancy
relocate_passenger_ParseBoth(from_seat, to_seat) ==
    Relocation(from_seat, to_seat, TRUE, FALSE, Same, CopiedThenCleared)

\* as relocate_passenger, with a relocation onto the same seat as a no-op
relocate_passenger_SelfNoOp(from_seat, to_seat) ==
    Relocation(from_seat, to_seat, FALSE, TRUE, Same, CopiedThenCleared)

relocate_passenger(from_seat, to_seat) ==
    /\ number # NoneStr
    /\ LET f == _parse_seat(from_seat)
           args == <<from_seat, to_seat>>
       IN  IF f.raised # None THEN Raise("relocate_passenger", args, f.raised)
           ELSE IF seating[f.ret.row][f.ret.letter] = None
               THEN Raise("relocate_passenger", args, NoPassengerToRelocate)
           ELSE LET t == _parse_seat(to_seat)
                IN  IF t.raised # None THEN Raise("relocate_passenger", args, t.raised)
                    ELSE IF seating[t.ret.row][t.ret.letter] # None
                        THEN Raise("relocate_passenger", args, SeatAlreadyOccupiedTo)
                    ELSE LET copied == [seating EXCEPT ![t.ret.row][t.ret.letter] =
                                                        seating[f.ret.row][f.ret.letter]]
                         IN  /\ seating' = [copied EXCEPT ![f.ret.row][f.ret.letter] = None]
                             /\ Record(Call("relocate_passenger", args, None, None))
                             /\ UNCHANGED <<number, aircraft>>

-----------------------------------------------------------------------------
(* Flight.num_seats_available *)

RECURSIVE SumRows(_, _)
SumRows(s, i) ==
    IF i \notin DOMAIN s THEN 0
    ELSE (IF s[i] # NoneRow
            THEN Cardinality({letter \in DOMAIN s[i] : s[i][letter] = None})
            ELSE 0) + SumRows(s, i + 1)

\* as SeatsAvailable, with "if not n" in the place of "if n is None"
RECURSIVE SumRowsFalsy(_, _)
SumRowsFalsy(s, i) ==
    IF i \notin DOMAIN s THEN 0
    ELSE (IF s[i] # NoneRow
            THEN Cardinality({letter \in DOMAIN s[i] : s[i][letter] \in {None, ""}})
            ELSE 0) + SumRowsFalsy(s, i + 1)

SeatsAvailable_Falsy(s) == SumRowsFalsy(s, 0)

\* sum(sum(1 for n in row.values() if n is None) for row in s if row is not None)
SeatsAvailable(s) == SumRows(s, 0)

num_seats_available == SeatsAvailable(seating)

-----------------------------------------------------------------------------
(* Flight._passenger_seats: the seat designator of a seat *)

DigitChar == <<"0", "1", "2", "3", "4", "5", "6", "7", "8", "9">>

\* str(n) for n >= 0
RECURSIVE str(_)
str(n) == IF n < 10 THEN <<DigitChar[n + 1]>> ELSE str(n \div 10) \o <<DigitChar[(n % 10) + 1]>>

\* "{}{}".format(row, letter)
format(row, letter) == str(row) \o <<letter>>

\* what the inner loop yields in a row, from the i-th letter of the plan on
RECURSIVE YieldLetters(_, _)
YieldLetters(row, i) ==
    LET seat_letters == seating_plan(aircraft).seats
    IN  IF i > Len(seat_letters) THEN <<>>
        ELSE LET letter == seat_letters[i]
                 passenger == seating[row][letter]
             IN  (IF passenger # None
                    THEN <<(<<passenger, format(row, letter)>>)>>
                    ELSE <<>>) \o YieldLetters(row, i + 1)

\* what the outer loop yields from a row on (the rows of a plan are a range,
\* which is iterated in ascending order)
RECURSIVE YieldRows(_)
YieldRows(row) ==
    IF row \notin seating_plan(aircraft).rows THEN <<>>
    ELSE YieldLetters(row, 1) \o YieldRows(row + 1)

\* as _passenger_seats, with the loop over the letters outside the loop
\* over the rows
RECURSIVE YieldColumn(_, _)
YieldColumn(i, row) ==
    IF row \notin seating_plan(aircraft).rows THEN <<>>
    ELSE LET letter == seating_plan(aircraft).seats[i]
             passenger == seating[row][letter]
         IN  (IF passenger # None
                THEN <<(<<passenger, format(row, letter)>>)>>
                ELSE <<>>) \o YieldColumn(i, row + 1)

RECURSIVE YieldColumns(_)
YieldColumns(i) ==
    IF i > Len(seating_plan(aircraft).seats) THEN <<>>
    ELSE YieldColumn(i, 1) \o YieldColumns(i + 1)

_passenger_seats_LettersFirst == YieldColumns(1)

\* list(self._passenger_seats())
_passenger_seats == YieldRows(1)

\* a call of _passenger_seats that is run to its end
PassengerSeats ==
    /\ number # NoneStr
    /\ Record(Call("_passenger_seats", <<>>, None, _passenger_seats))
    /\ UNCHANGED <<number, aircraft, seating>>

-----------------------------------------------------------------------------
(* sorted, on tuples (passenger, seat) of two str *)

UpperSeq == <<"A", "B", "C", "D", "E", "F", "G", "H", "I", "J", "K", "L", "M",
              "N", "O", "P", "Q", "R", "S", "T", "U", "V", "W", "X", "Y", "Z">>
LowerSeq == <<"a", "b", "c", "d", "e", "f", "g", "h", "i", "j", "k", "l", "m",
              "n", "o", "p", "q", "r", "s", "t", "u", "v", "w", "x", "y", "z">>

\* ord(c) of a digit or an ASCII letter
ord(c) ==
    IF c \in DIGITS THEN 48 + DigitValue[c]
    ELSE IF c \in UPPER THEN 64 + (CHOOSE i \in 1..26 : UpperSeq[i] = c)
    ELSE 96 + (CHOOSE i \in 1..26 : LowerSeq[i] = c)

\* the characters of a passenger name (names are kept whole in the map)
chars(name) ==
    CASE name = "" -> <<>>
      [] name = "Alice" -> <<"A", "l", "i", "c", "e">>
      [] name = "Bob" -> <<"B", "o", "b">>
      [] name = "Tim" -> <<"T", "i", "m">>
      [] name = "John" -> <<"J", "o", "h", "n">>

\* s < t on str: the first character that differs decides, a proper prefix
\* is smaller
RECURSIVE StrLess(_, _)
StrLess(s, t) ==
    IF Len(t) = 0 THEN FALSE
    ELSE IF Len(s) = 0 THEN TRUE
    ELSE IF s[1] # t[1] THEN ord(s[1]) < ord(t[1])
    ELSE StrLess(Tail(s), Tail(t))

\* x < y on tuples (passenger, seat): the first item that differs decides
TupleLess(x, y) ==
    IF x[1] # y[1] THEN StrLess(chars(x[1]), chars(y[1]))
    ELSE StrLess(x[2], y[2])

\* the sorted list with x put before the first item that is greater
RECURSIVE Insert(_, _)
Insert(x, sortedList) ==
    IF Len(sortedList) = 0 THEN <<x>>
    ELSE IF TupleLess(x, sortedList[1]) THEN <<x>> \o sortedList
    ELSE <<sortedList[1]>> \o Insert(x, Tail(sortedList))

\* sorted(list): ascending and stable
RECURSIVE sorted(_)
sorted(list) ==
    IF Len(list) = 0 THEN <<>>
    ELSE Insert(list[Len(list)], sorted(SubSeq(list, 1, Len(list) - 1)))

-----------------------------------------------------------------------------
(* Flight.make_boarding_cards *)

\* the call card_printer(passenger, seat, self.number(), self.aircraft_model())
CardFor(pair) == <<pair[1], pair[2], number, aircraft_model>>

\* as make_boarding_cards, without sorted()
make_boarding_cards_Unsorted ==
    /\ number # NoneStr
    /\ last' = Call("make_boarding_cards", <<>>, None, None)
    /\ before' = seating
    /\ reversal' = FALSE
    /\ printed' = [i \in 1..Len(_passenger_seats) |-> CardFor(_passenger_seats[i])]
    /\ UNCHANGED <<number, aircraft, seating, threads>>

\* card_printer is called for each pair of sorted(self._passenger_seats())
make_boarding_cards ==
    /\ number # NoneStr
    /\ last' = Call("make_boarding_cards", <<>>, None, None)
    /\ before' = seating
    /\ reversal' = FALSE
    /\ printed' = LET pairs == sorted(_passenger_seats)
                  IN  [i \in 1..Len(pairs) |-> CardFor(pairs[i])]
    /\ UNCHANGED <<number, aircraft, seating, threads>>

-----------------------------------------------------------------------------
(* make_flights *)

AB221 == <<"A", "B", "2", "2", "1">>
AF72 == <<"A", "F", "7", "2">>

\* the flights f and g that make_flights returns
make_flights ==
    {[number |-> AB221, aircraft |-> "AirbusA319",
      seating |-> [[[[[EmptySeating("AirbusA319")
                        EXCEPT ![12]["A"] = "Rahul"]
                        EXCEPT ![15]["F"] = "Dinesh Mathur"]
                        EXCEPT ![15]["E"] = "Christopher Philips"]
                        EXCEPT ![1]["C"] = "Tim Cathy"]
                        EXCEPT ![1]["D"] = "John Bushman"]],
     [number |-> AF72, aircraft |-> "Boeing777",
      seating |-> [[[[EmptySeating("Boeing777")
                        EXCEPT ![55]["K"] = "Lisa Rosamund"]
                        EXCEPT ![33]["G"] = "Hilary Burt"]
                        EXCEPT ![4]["B"] = "Nikhil"]
                        EXCEPT ![4]["A"] = "Madhav"]]}

-----------------------------------------------------------------------------
(* Inputs *)

\* the strings over S of length at most n
Strings(S, n) == UNION {[1..k -> S] : k \in 0..n}

NumberChars == {"A", "B", "a", "U+4E2D", "1", "9", "-"}

\* every string over NumberChars up to MaxNumberLen, the numbers AB<ddddd>
\* with digits 0 and 1, and the numbers of make_flights and of the scenarios
FlightNumbers ==
    Strings(NumberChars, MaxNumberLen)
        \cup {<<"A", "B">> \o d : d \in [1..5 -> {"0", "1"}]}
        \cup {AB221, AF72, <<"A", "B", "1", "2", "3", "4", "5">>,
              <<"a", "b", "1", "2", "3">>, <<"A", "B", "1", "2", "3", "4">>}

\* passenger names; the empty name is a str too
Passengers == {"Alice", "Bob", ""}

\* the seat designators of the calls of allocate_seat and relocate_passenger:
\* '1A', '1B', '2A', '01A' (seat 1A again), '1Z', 'xA', '99A' and ''
Designators ==
    {<<"1", "A">>, <<"1", "B">>, <<"2", "A">>, <<"0", "1", "A">>,
     <<"1", "Z">>, <<"x", "A">>, <<"9", "9", "A">>, <<>>}

RowChars == {"0", "1", "2", "3", "5", "6", "-", " ", "_", "x"}
ParseLastChars == {"A", "C", "G", "I", "K", "Z", "2"}

\* the seat designators of the calls of _parse_seat, '99Z', '99A' and ''
\* among them
SeatTexts ==
    {r \o <<c>> : r \in Strings(RowChars, MaxRowTextLen), c \in ParseLastChars}
        \cup {<<"9", "9", "Z">>, <<"9", "9", "A">>, <<>>}

-----------------------------------------------------------------------------
(* Specifications *)

\* no Flight yet
InitNumber ==
    /\ number = NoneStr
    /\ aircraft = None
    /\ seating = NoneRow
    /\ last = NoCall
    /\ before = NoneRow
    /\ reversal = FALSE
    /\ printed = <<>>
    /\ threads = NoThreads

\* one construction in each behaviour
NextNumber ==
    /\ last = NoCall
    /\ \E n \in FlightNumbers, a \in AircraftVariants : Flight(n, a)

\* construction of a Flight from any string
SpecNumber == InitNumber /\ [][NextNumber]_vars

\* the state after Flight(n, a) has returned
Constructed(n, a) ==
    /\ FlightNumberError(n) = None
    /\ number = n
    /\ aircraft = a
    /\ seating = EmptySeating(a)
    /\ last = Call("Flight", <<n, a>>, None, None)
    /\ before = NoneRow
    /\ reversal = FALSE
    /\ printed = <<>>
    /\ threads = NoThreads

Init ==
    \/ Constructed(AB221, "AirbusA319")
    \/ Constructed(<<"A", "B", "1">>, "Aircraft")

Next ==
    \/ \E seat \in Designators, passenger \in Passengers : allocate_seat(seat, passenger)
    \/ \E from_seat \in Designators, to_seat \in Designators :
            relocate_passenger(from_seat, to_seat)

\* a Flight under any sequence of allocations and relocations
Spec == Init /\ [][Next]_vars

\* a flight of make_flights, or a new one
InitParse ==
    \/ Constructed(<<"A", "B", "1">>, "Aircraft")
    \/ \E f \in make_flights :
            /\ number = f.number
            /\ aircraft = f.aircraft
            /\ seating = f.seating
            /\ last = Call("make_flights", <<>>, None, None)
            /\ before = f.seating
            /\ reversal = FALSE
            /\ printed = <<>>
            /\ threads = NoThreads

\* a designator is parsed, and then parsed again
NextParse ==
    \/ /\ last.op # "_parse_seat"
       /\ \E seat \in SeatTexts : ParseSeat(seat)
    \/ /\ last.op = "_parse_seat"
       /\ ParseSeat(last.args[1])

\* seat parsing on any string
SpecParse == InitParse /\ [][NextParse]_vars

\* the flights and the calls of the scenarios: a new flight on each aircraft,
\* then allocations of '1A', '1C' and '1D' to Tim and John
InitScenario ==
    \/ Constructed(AB221, "AirbusA319")
    \/ Constructed(AF72, "Boeing777")
    \/ Constructed(<<"A", "B", "1">>, "Aircraft")

ScenarioDesignators == {<<"1", "A">>, <<"1", "C">>, <<"1", "D">>}

NextScenario ==
    \E seat \in ScenarioDesignators, passenger \in {"Tim", "John"} :
        allocate_seat(seat, passenger)

SpecScenario == InitScenario /\ [][NextScenario]_vars

\* the seat designators of the calls before boarding cards are made:
\* '1A', '1B', '2A' and '10A'
CardDesignators ==
    {<<"1", "A">>, <<"1", "B">>, <<"2", "A">>, <<"1", "0", "A">>}

NextCards ==
    \/ \E seat \in CardDesignators, passenger \in Passengers : allocate_seat(seat, passenger)
    \/ PassengerSeats
    \/ make_boarding_cards

\* a Flight under allocations, enumerations of its passengers and makings
\* of boarding cards
SpecCards == Init /\ [][NextCards]_vars

-----------------------------------------------------------------------------
(* Concurrent callers of one Flight.  Each caller runs allocate_seat or     *)
(* relocate_passenger statement by statement: a step is one read or one    *)
(* write of the seating map, together with the statements on locals that   *)
(* follow it, and the steps of two callers interleave in any order.  With  *)
(* locking, a caller holds the lock of the Flight from the start of its    *)
(* call to its return or raise.                                            *)

Threads == {1, 2}

\* the locals of a caller: the statement it is at, its call, and the seats
\* that _parse_seat returned
NoSeat == [row |-> 0, letter |-> ""]
Idle == [pc |-> "idle", op |-> "none", args |-> <<>>, from |-> NoSeat, to |-> NoSeat]

\* callers of a new Flight, none of them in a call
NewThreads(locking) ==
    [locking |-> locking, lock |-> 0, frame |-> [t \in Threads |-> Idle], log |-> <<>>]

\* the callers that are in a call
Busy == {t \in Threads : threads.frame[t].pc # "idle"}

\* the exclusive lock of the Flight: free or held by one caller
CanAcquire(t) == threads.locking => threads.lock = 0
Acquired(t) == IF threads.locking THEN t ELSE 0
Released == 0

\* caller t at statement pc of its call
At(t, pc) ==
    /\ threads # NoThreads
    /\ threads.frame[t].pc = pc

\* caller t enters a call with locals f
Enter(t, f) ==
    threads' = [threads EXCEPT !.lock = Acquired(t), !.frame[t] = f]

\* caller t goes on to statement pc
Goto(t, pc) ==
    threads' = [threads EXCEPT !.frame[t].pc = pc]

\* the call (op, args) of caller t returns (raised = None) or raises, having
\* replaced the occupant overwrote (None: no occupant) with its writes
Return(t, op, args, raised, overwrote) ==
    threads' = [threads EXCEPT !.lock = Released,
                               !.frame[t] = Idle,
                               !.log = Append(@, [thread |-> t, op |-> op, args |-> args,
                                                  raised |-> raised, overwrote |-> overwrote])]

\* line 69 of allocate_seat: row, letter = self._parse_seat(seat)
AllocateSeatEnter(t, seat, passenger) ==
    /\ At(t, "idle")
    /\ CanAcquire(t)
    /\ Len(threads.log) + Cardinality(Busy) < MaxCalls
    /\ LET p == _parse_seat(seat)
           args == <<seat, passenger>>
       IN  IF p.raised # None THEN Return(t, "allocate_seat", args, p.raised, None)
           ELSE Enter(t, [pc |-> "71", op |-> "allocate_seat", args |-> args,
                          from |-> NoSeat, to |-> p.ret])
    /\ UNCHANGED <<number, aircraft, seating, last, before, reversal, printed>>

\* as CheckSeat, without the check of the occupant
CheckSeat_NoCheck(t) ==
    /\ At(t, "71")
    /\ Goto(t, "74")
    /\ UNCHANGED <<number, aircraft, seating, last, before, reversal, printed>>

\* lines 71-72 of allocate_seat: if self._seating[row][letter] is not None: raise
CheckSeat(t) ==
    /\ At(t, "71")
    /\ LET f == threads.frame[t]
       IN  IF seating[f.to.row][f.to.letter] # None
               THEN Return(t, f.op, f.args, SeatAlreadyOccupied, None)
           ELSE Goto(t, "74")
    /\ UNCHANGED <<number, aircraft, seating, last, before, reversal, printed>>

\* line 74 of allocate_seat: self._seating[row][letter] = passenger
WriteSeat(t) ==
    /\ At(t, "74")
    /\ LET f == threads.frame[t]
       IN  /\ seating' = [seating EXCEPT ![f.to.row][f.to.letter] = f.args[2]]
           /\ Return(t, f.op, f.args, None, seating[f.to.row][f.to.letter])
    /\ UNCHANGED <<number, aircraft, last, before, reversal, printed>>

\* line 84 of relocate_passenger: from_row, from_letter = self._parse_seat(from_seat)
RelocatePassengerEnter(t, from_seat, to_seat) ==
    /\ At(t, "idle")
    /\ CanAcquire(t)
    /\ Len(threads.log) + Cardinality(Busy) < MaxCalls
    /\ LET p == _parse_seat(from_seat)
           args == <<from_seat, to_seat>>
       IN  IF p.raised # None THEN Return(t, "relocate_passenger", args, p.raised, None)
           ELSE Enter(t, [pc |-> "85", op |-> "relocate_passenger", args |-> args,
                          from |-> p.ret, to |-> NoSeat])
    /\ UNCHANGED <<number, aircraft, seating, last, before, reversal, printed>>

\* lines 85-88 of relocate_passenger: the check of the occupant of from_seat,
\* then to_row, to_letter = self._parse_seat(to_seat)
CheckFrom(t) ==
    /\ At(t, "85")
    /\ LET f == threads.frame[t]
           p == _parse_seat(f.args[2])
       IN  IF seating[f.from.row][f.from.letter] = None
               THEN Return(t, f.op, f.args, NoPassengerToRelocate, None)
           ELSE IF p.raised # None THEN Return(t, f.op, f.args, p.raised, None)
           ELSE threads' = [threads EXCEPT !.frame[t].pc = "89", !.frame[t].to = p.ret]
    /\ UNCHANGED <<number, aircraft, seating, last, before, reversal, printed>>

\* lines 89-90 of relocate_passenger: if self._seating[to_row][to_letter] is not None: raise
CheckTo(t) ==
    /\ At(t, "89")
    /\ LET f == threads.frame[t]
       IN  IF seating[f.to.row][f.to.letter] # None
               THEN Return(t, f.op, f.args, SeatAlreadyOccupiedTo, None)
           ELSE Goto(t, "92")
    /\ UNCHANGED <<number, aircraft, seating, last, before, reversal, printed>>

\* line 92 of relocate_passenger:
\* self._seating[to_row][to_letter] = self._seating[from_row][from_letter]
CopySeat(t) ==
    /\ At(t, "92")
    /\ LET f == threads.frame[t]
       IN  /\ seating' = [seating EXCEPT ![f.to.row][f.to.letter] =
                                            seating[f.from.row][f.from.letter]]
           /\ threads' = [threads EXCEPT !.frame[t].pc = "93"]
    /\ UNCHANGED <<number, aircraft, last, before, reversal, printed>>

\* line 93 of relocate_passenger: self._seating[from_row][from_letter] = None
ClearSeat(t) ==
    /\ At(t, "93")
    /\ LET f == threads.frame[t]
       IN  /\ seating' = [seating EXCEPT ![f.from.row][f.from.letter] = None]
           /\ Return(t, f.op, f.args, None, None)
    /\ UNCHANGED <<number, aircraft, last, before, reversal, printed>>

\* the seat designators and the passengers of the concurrent calls:
\* '1A', '2A' and '1Z'
ThreadDesignators == {<<"1", "A">>, <<"2", "A">>, <<"1", "Z">>}
ThreadPassengers == {"Alice", "Bob"}

\* a new flight with two callers, with or without the lock
InitThreads ==
    /\ number = <<"A", "B", "1">>
    /\ aircraft = "Aircraft"
    /\ seating = EmptySeating(aircraft)
    /\ last = Call("Flight", <<number, aircraft>>, None, None)
    /\ before = NoneRow
    /\ reversal = FALSE
    /\ printed = <<>>
    /\ \E locking \in BOOLEAN : threads = NewThreads(locking)

NextThreads ==
    \E t \in Threads :
        \/ \E seat \in ThreadDesignators, passenger \in ThreadPassengers :
                AllocateSeatEnter(t, seat, passenger)
        \/ CheckSeat(t)
        \/ WriteSeat(t)
        \/ \E from_seat \in ThreadDesignators, to_seat \in ThreadDesignators :
                RelocatePassengerEnter(t, from_seat, to_seat)
        \/ CheckFrom(t)
        \/ CheckTo(t)
        \/ CopySeat(t)
        \/ ClearSeat(t)

\* a Flight under the calls of two concurrent callers
SpecThreads == InitThreads /\ [][NextThreads]_vars

-----------------------------------------------------------------------------
(* The error taxonomy of the specification, as sets of exceptions *)

InvalidFormat == {NoAirlineCode, InvalidAirlineCode, InvalidRouteNumber}
InvalidSeatLetter == {InvalidSeatLetterMsg}
InvalidSeatRow == {InvalidSeatRowMsg, InvalidRowNumberMsg}
SeatTaken == {SeatAlreadyOccupied, SeatAlreadyOccupiedTo}
EmptySeat == {NoPassengerToRelocate}

\* the rows and the letters of the plan of the bound aircraft
PlanRowSet == seating_plan(aircraft).rows
PlanLetterSet == Range(seating_plan(aircraft).seats)

\* the number of empty seats of a map, counted seat by seat over the plan
EmptySeats(s) == Cardinality({rl \in PlanRowSet \X PlanLetterSet : s[rl[1]][rl[2]] = None})

Allocated == last.op = "allocate_seat"
Relocated == last.op = "relocate_passenger"
Succeeded == last.raised = None

-----------------------------------------------------------------------------
(* Properties of allocate_seat and relocate_passenger, under Spec *)

\* C1: for every seat (r, l) of the plan and every passenger p,
\* allocate_seat('<r><l>', p) succeeds iff the seat was empty; on success
\* the map is the map before with p at (r, l) and nothing else changed; on
\* an occupied seat it fails with SeatTaken and the occupant stays.
C1_AllocateSeat ==
    Allocated => \A r \in PlanRowSet, l \in PlanLetterSet :
        last.args[1] = format(r, l) =>
            /\ Succeeded <=> before[r][l] = None
            /\ Succeeded => seating = [before EXCEPT ![r][l] = last.args[2]]
            /\ before[r][l] # None =>
                    /\ last.raised \in SeatTaken
                    /\ seating[r][l] = before[r][l]

\* Bob was refused seat 1A, which Alice keeps, and seat 1B is taken too
C1_Witness ==
    /\ Allocated
    /\ last.args = <<format(1, "A"), "Bob">>
    /\ last.raised \in SeatTaken
    /\ seating[1]["A"] = "Alice"
    /\ aircraft = "AirbusA319"
    /\ seating[1]["B"] = ""

\* C2: a call of allocate_seat or relocate_passenger that raises leaves the
\* whole seating map as it was before the call.
C2_NoSideEffectOnFailure ==
    ((Allocated \/ Relocated) /\ ~Succeeded) => seating = before

\* a relocation onto an occupied seat was refused
C2_Witness ==
    /\ Relocated
    /\ last.args = <<format(2, "A"), format(1, "A")>>
    /\ last.raised \in SeatTaken
    /\ before[2]["A"] = "Bob"
    /\ before[1]["A"] = "Alice"

\* C3: for distinct seats A and B of the plan, A occupied and B empty,
\* relocate_passenger(A, B) succeeds, B then holds the occupant of A, A is
\* empty and every other seat is unchanged.
C3_Relocate ==
    Relocated => \A ra \in PlanRowSet, la \in PlanLetterSet :
        last.args[1] = format(ra, la) => \A rb \in PlanRowSet, lb \in PlanLetterSet :
        ( /\ last.args[2] = format(rb, lb)
          /\ <<ra, la>> # <<rb, lb>>
          /\ before[ra][la] # None
          /\ before[rb][lb] = None ) =>
            /\ Succeeded
            /\ seating[rb][lb] = before[ra][la]
            /\ seating[ra][la] = None
            /\ \A r \in PlanRowSet, l \in PlanLetterSet :
                    (<<r, l>> # <<ra, la>> /\ <<r, l>> # <<rb, lb>>) =>
                        seating[r][l] = before[r][l]

\* Alice moved from 1A to 2A while Bob sat in 1B
C3_Witness ==
    /\ Relocated
    /\ last.args = <<format(1, "A"), format(2, "A")>>
    /\ Succeeded
    /\ before[1]["A"] = "Alice"
    /\ seating[2]["A"] = "Alice"
    /\ seating[1]["A"] = None
    /\ aircraft = "AirbusA319"
    /\ seating[1]["B"] = "Bob"

\* C4: num_seats_available() is the number of empty seats of the map; a
\* successful allocate_seat lowers it by exactly 1, whatever the name; a
\* call of relocate_passenger, successful or not, leaves it as it was.
C4_SeatsAvailable ==
    /\ num_seats_available = EmptySeats(seating)
    /\ (Allocated /\ Succeeded) => num_seats_available = SeatsAvailable(before) - 1
    /\ Relocated => num_seats_available = SeatsAvailable(before)

\* the passenger with the empty name took the second seat of the flight
C4_Witness ==
    /\ Allocated
    /\ Succeeded
    /\ last.args[2] = ""
    /\ num_seats_available = num_seats(aircraft) - 2

\* C5: the keys of the seating map are exactly rows x letters of the plan of
\* the bound aircraft, and each key holds a passenger name or None.
C5_KeySet ==
    /\ {i \in DOMAIN seating : seating[i] # NoneRow} = PlanRowSet
    /\ \A r \in PlanRowSet : DOMAIN seating[r] = PlanLetterSet
    /\ \A r \in PlanRowSet, l \in PlanLetterSet : seating[r][l] \in Passengers \cup {None}

\* seat 1A was cleared by a relocation, the only occupant of the flight moved
C5_Witness ==
    /\ Relocated
    /\ Succeeded
    /\ EmptySeats(seating) = num_seats(aircraft) - 1
    /\ seating[1]["A"] = None
    /\ before[1]["A"] # None

\* C6: for distinct seats A and B of the plan, A occupied and B empty,
\* relocate_passenger(A, B) succeeds, and the relocate_passenger(B, A) that
\* follows it succeeds too and gives back the map of before the first call.
C6_RoundTrip ==
    [][ /\ \A ra \in PlanRowSet, la \in PlanLetterSet :
            (last'.op = "relocate_passenger" /\ last'.args[1] = format(ra, la)) =>
                \A rb \in PlanRowSet, lb \in PlanLetterSet :
                    ( /\ last'.args[2] = format(rb, lb)
                      /\ <<ra, la>> # <<rb, lb>>
                      /\ seating[ra][la] # None
                      /\ seating[rb][lb] = None ) => last'.raised = None
        /\ reversal' => (last'.raised = None /\ seating' = before) ]_vars

\* Alice went from 1A to 1B and back while Bob sat in 2A
C6_Witness ==
    /\ reversal
    /\ last.args = <<format(1, "B"), format(1, "A")>>
    /\ Succeeded
    /\ seating[1]["A"] = "Alice"
    /\ seating[1]["B"] = None
    /\ seating[2]["A"] = "Bob"

\* a designator that names a seat of the plan: a last character among the
\* letters and, before it, a text whose integer value is among the rows
IsPlanSeat(d) ==
    /\ Len(d) > 0
    /\ d[Len(d)] \in PlanLetterSet
    /\ int(SubSeq(d, 1, Len(d) - 1)).raised = None
    /\ int(SubSeq(d, 1, Len(d) - 1)).value \in PlanRowSet

\* the occupant, in map s, of the seat that d names
Occupant(s, d) == s[int(SubSeq(d, 1, Len(d) - 1)).value][d[Len(d)]]

\* the errors of parsing a designator that names no seat of the plan
ParseErrors(d) == IF d = <<>> THEN {IndexError} ELSE InvalidSeatLetter \cup InvalidSeatRow

\* C7 as stated, for designators of at least one character: whenever
\* fromSeat or toSeat is no seat of the plan the call fails with
\* InvalidSeatLetter or InvalidSeatRow, whatever the occupancy; EmptySeat and
\* SeatTaken are reported only when both are seats of the plan.
C7_AsStated ==
    (Relocated /\ Len(last.args[1]) > 0 /\ Len(last.args[2]) > 0) =>
        /\ (~IsPlanSeat(last.args[1]) \/ ~IsPlanSeat(last.args[2])) =>
                last.raised \in InvalidSeatLetter \cup InvalidSeatRow
        /\ last.raised \in EmptySeat \cup SeatTaken =>
                (IsPlanSeat(last.args[1]) /\ IsPlanSeat(last.args[2]))

\* C7, amended: fromSeat is parsed and its occupant checked before toSeat is
\* parsed.  A fromSeat that is no seat of the plan fails with
\* InvalidSeatLetter or InvalidSeatRow (the empty string with IndexError); a
\* fromSeat that is an empty seat fails with EmptySeat whatever toSeat is; an
\* occupied fromSeat with a toSeat that is no seat of the plan fails with the
\* parse error of toSeat; EmptySeat is reported only when fromSeat is a seat
\* of the plan and SeatTaken only when both are.
C7_FromSeatFirst ==
    Relocated =>
        /\ ~IsPlanSeat(last.args[1]) => last.raised \in ParseErrors(last.args[1])
        /\ (IsPlanSeat(last.args[1]) /\ Occupant(before, last.args[1]) = None) =>
                last.raised \in EmptySeat
        /\ ( /\ IsPlanSeat(last.args[1])
             /\ Occupant(before, last.args[1]) # None
             /\ ~IsPlanSeat(last.args[2]) ) => last.raised \in ParseErrors(last.args[2])
        /\ last.raised \in EmptySeat => IsPlanSeat(last.args[1])
        /\ last.raised \in SeatTaken =>
                (IsPlanSeat(last.args[1]) /\ IsPlanSeat(last.args[2]))

\* the empty seat 1A was to be vacated for the seat 1Z, which no plan has
C7_Witness ==
    /\ Relocated
    /\ last.args = <<format(1, "A"), <<"1", "Z">>>>
    /\ last.raised \in EmptySeat
    /\ before[1]["A"] = None
    /\ before[2]["A"] = "Alice"

\* C8: for every seat S of the plan relocate_passenger(S, S) fails, with
\* SeatTaken when S is occupied and with EmptySeat when S is empty, and S
\* keeps its occupant.
C8_SelfRelocation ==
    Relocated => \A r \in PlanRowSet, l \in PlanLetterSet :
        last.args = <<format(r, l), format(r, l)>> =>
            /\ before[r][l] # None => last.raised \in SeatTaken
            /\ before[r][l] = None => last.raised \in EmptySeat
            /\ seating[r][l] = before[r][l]

\* Alice was to be relocated from 2A to 2A
C8_Witness ==
    /\ Relocated
    /\ last.args = <<format(2, "A"), format(2, "A")>>
    /\ last.raised \in SeatTaken
    /\ seating[2]["A"] = "Alice"

-----------------------------------------------------------------------------
(* Flight construction, under SpecNumber *)

\* two uppercase letters, then one or more digits of value at most 9999
ValidFlightNumber(n) ==
    /\ Len(n) >= 3
    /\ n[1] \in UPPER
    /\ n[2] \in UPPER
    /\ \A i \in 3..Len(n) : n[i] \in DIGITS
    /\ DecimalValue(SubSeq(n, 3, Len(n))) <= 9999

\* C9: Flight(N, a) succeeds iff N is two uppercase letters followed by one
\* or more digits of integer value at most 9999; every other string fails
\* with InvalidFormat; on success airline() is the first two characters of N.
C9_FlightNumber ==
    last.op = "Flight" =>
        /\ Succeeded <=> ValidFlightNumber(last.args[1])
        /\ ~ValidFlightNumber(last.args[1]) => last.raised \in InvalidFormat
        /\ Succeeded => (number = last.args[1] /\ airline = SubSeq(last.args[1], 1, 2))

-----------------------------------------------------------------------------
(* Seat parsing, under SpecParse *)

\* C10: a designator made of the decimal text of a row of the plan and a
\* letter of the plan parses to that (row, letter), at every parse of it; a
\* last character outside the letters fails with InvalidSeatLetter; with a
\* letter of the plan, a prefix that is no integer or an integer outside the
\* rows fails with InvalidSeatRow; no parse changes the seating map.
C10_ParseSeat ==
    last.op = "_parse_seat" =>
        LET d == last.args[1]
            prefix == SubSeq(d, 1, Len(d) - 1)
        IN  /\ \A r \in PlanRowSet, l \in PlanLetterSet :
                    d = format(r, l) =>
                        (Succeeded /\ last.ret = [row |-> r, letter |-> l])
            /\ (Len(d) > 0 /\ d[Len(d)] \notin PlanLetterSet) =>
                    last.raised \in InvalidSeatLetter
            /\ ( /\ Len(d) > 0
                 /\ d[Len(d)] \in PlanLetterSet
                 /\ \/ int(prefix).raised # None
                    \/ int(prefix).value \notin PlanRowSet ) =>
                    last.raised \in InvalidSeatRow
            /\ seating = before

\* '22C' was parsed on the Airbus of make_flights, the last row of its plan
C10_Witness ==
    /\ last.op = "_parse_seat"
    /\ last.args = <<format(22, "C")>>
    /\ Succeeded
    /\ last.ret = [row |-> 22, letter |-> "C"]
    /\ aircraft = "AirbusA319"
    /\ seating[12]["A"] = "Rahul"

-----------------------------------------------------------------------------
(* Enumeration of the passengers and boarding cards, under SpecCards *)

\* the seats of the plan that hold a passenger
OccupiedSeats == {rl \in PlanRowSet \X PlanLetterSet : seating[rl[1]][rl[2]] # None}

\* (name, seat) pairs in ascending lexicographic order, the name first
PairBefore(name1, seat1, name2, seat2) ==
    \/ StrLess(chars(name1), chars(name2))
    \/ name1 = name2 /\ StrLess(seat1, seat2)

\* C11: make_boarding_cards calls the renderer exactly once for each occupied
\* seat (total seats - num_seats_available() calls), with the passenger, the
\* seat designator, the flight number and the aircraft model, in ascending
\* lexicographic order of (passenger name, seat designator), and leaves the
\* seating map unchanged.
C11_BoardingCards ==
    last.op = "make_boarding_cards" =>
        /\ Len(printed) = num_seats(aircraft) - num_seats_available
        /\ \A rl \in OccupiedSeats : \E i \in 1..Len(printed) :
                printed[i] = <<seating[rl[1]][rl[2]], format(rl[1], rl[2]),
                               number, model(aircraft)>>
        /\ \A i \in 1..Len(printed), j \in 1..Len(printed) :
                i < j => PairBefore(printed[i][1], printed[i][2],
                                    printed[j][1], printed[j][2])
        /\ seating = before

\* Alice in 2A got her card before Bob in 1A, and before Bob in 10A
C11_Witness ==
    /\ last.op = "make_boarding_cards"
    /\ printed = << <<"Alice", format(2, "A"), AB221, "Airbus A319">>,
                    <<"Bob", format(10, "A"), AB221, "Airbus A319">>,
                    <<"Bob", format(1, "A"), AB221, "Airbus A319">> >>

\* the place of a seat in the order of the plan: rows ascending, and in a
\* row the letters in the order of the plan
LetterIndex(l) == CHOOSE k \in 1..Len(seating_plan(aircraft).seats) :
                        seating_plan(aircraft).seats[k] = l
PlanBefore(rl1, rl2) ==
    \/ rl1[1] < rl2[1]
    \/ rl1[1] = rl2[1] /\ LetterIndex(rl1[2]) < LetterIndex(rl2[2])

\* C12: _passenger_seats yields the occupied seats of the map, each once as
\* (passenger, '<row><letter>'), rows ascending and the letters of a row in
\* the order of the plan, yields no empty seat and leaves the map unchanged,
\* at every enumeration.
C12_PassengerSeats ==
    last.op = "_passenger_seats" =>
        /\ Len(last.ret) = Cardinality(OccupiedSeats)
        /\ \A i \in 1..Len(last.ret) : \E rl \in OccupiedSeats :
                last.ret[i] = <<seating[rl[1]][rl[2]], format(rl[1], rl[2])>>
        /\ \A rl1 \in OccupiedSeats, rl2 \in OccupiedSeats :
                PlanBefore(rl1, rl2) =>
                    \E i \in 1..Len(last.ret), j \in 1..Len(last.ret) :
                        /\ i < j
                        /\ last.ret[i][2] = format(rl1[1], rl1[2])
                        /\ last.ret[j][2] = format(rl2[1], rl2[2])
        /\ seating = before

\* Bob in 1A, Alice in 1B, the empty name in 2A and Alice again in 10A
C12_Witness ==
    /\ last.op = "_passenger_seats"
    /\ last.ret = << <<"Bob", format(1, "A")>>, <<"Alice", format(1, "B")>>,
                     <<"", format(2, "A")>>, <<"Alice", format(10, "A")>> >>

-----------------------------------------------------------------------------
(* New flights, under SpecScenario *)

\* C13: every seat of a new Flight is empty, so num_seats_available() is
\* num_seats() = |rows| * |letters| of the aircraft: 132 on an AirbusA319
\* (rows 1-22, letters A-F), 550 on a Boeing777 (rows 1-55, letters
\* ABCDEFGHJK); with '1C' and '1D' allocated on an AirbusA319 it is 130.
C13_NewFlight ==
    /\ num_seats(aircraft) = Cardinality(PlanRowSet) * Cardinality(PlanLetterSet)
    /\ (last.op = "Flight" /\ Succeeded) =>
            /\ \A r \in PlanRowSet, l \in PlanLetterSet : seating[r][l] = None
            /\ num_seats_available = num_seats(aircraft)
    /\ aircraft = "AirbusA319" =>
            /\ PlanRowSet = 1..22
            /\ PlanLetterSet = {"A", "B", "C", "D", "E", "F"}
            /\ num_seats(aircraft) = 132
            /\ OccupiedSeats = {<<1, "C">>, <<1, "D">>} => num_seats_available = 130
    /\ aircraft = "Boeing777" =>
            /\ PlanRowSet = 1..55
            /\ PlanLetterSet = {"A", "B", "C", "D", "E", "F", "G", "H", "J", "K"}
            /\ num_seats(aircraft) = 550

\* Tim in 1C and John in 1D of the Airbus: 130 seats are left
C13_Witness ==
    /\ aircraft = "AirbusA319"
    /\ Allocated
    /\ Succeeded
    /\ seating[1]["C"] = "Tim"
    /\ seating[1]["D"] = "John"
    /\ OccupiedSeats = {<<1, "C">>, <<1, "D">>}
    /\ num_seats_available = 130

-----------------------------------------------------------------------------
(* Passengers over sequences of calls, under Spec *)

\* the number of seats of map s that hold passenger p
SeatsOf(s, p) == Cardinality({rl \in PlanRowSet \X PlanLetterSet : s[rl[1]][rl[2]] = p})

\* C14: over every call the multiset of occupants only grows: a successful
\* allocate_seat adds exactly its passenger and every other call leaves the
\* multiset as it is (a call that leaves the map as it is has added nobody);
\* so no passenger that was seated is ever without a seat and the number of
\* occupied seats never decreases.
C14_NoPassengerLost ==
    [][ IF seating' = seating
            THEN ~(last'.op = "allocate_seat" /\ last'.raised = None)
        ELSE /\ \A p \in Passengers :
                    SeatsOf(seating', p) =
                        SeatsOf(seating, p) +
                            (IF /\ last'.op = "allocate_seat"
                                /\ last'.raised = None
                                /\ last'.args[2] = p
                             THEN 1 ELSE 0)
             /\ SeatsAvailable(seating') <= SeatsAvailable(seating) ]_vars

\* a relocation on a flight with Alice in two seats
C14_Witness ==
    /\ Relocated
    /\ Succeeded
    /\ SeatsOf(seating, "Alice") = 2
    /\ SeatsOf(before, "Alice") = 2
    /\ seating # before

\* C15: num_seats_available() is within 0..num_seats() in every state, and
\* from a state where it is 0 every call leaves the seating map as it is,
\* every allocate_seat on a seat of the plan raises SeatTaken, and so does
\* every relocate_passenger between two seats of the plan.
C15_FullFlight ==
    /\ [](num_seats_available \in 0..num_seats(aircraft))
    /\ [][ num_seats_available = 0 =>
                /\ seating' = seating
                /\ (/\ last'.op = "allocate_seat"
                    /\ IsPlanSeat(last'.args[1])) => last'.raised \in SeatTaken
                /\ (/\ last'.op = "relocate_passenger"
                    /\ IsPlanSeat(last'.args[1])
                    /\ IsPlanSeat(last'.args[2])) => last'.raised \in SeatTaken ]_vars

\* a relocation between two different seats of a full flight, refused
C15_Witness ==
    /\ num_seats_available = 0
    /\ before = seating
    /\ Relocated
    /\ IsPlanSeat(last.args[1])
    /\ IsPlanSeat(last.args[2])
    /\ Occupant(seating, last.args[1]) # Occupant(seating, last.args[2])
    /\ last.raised = SeatAlreadyOccupiedTo

-----------------------------------------------------------------------------
(* Concurrent callers, under SpecThreads *)

\* the calls of the log that returned from op
Returned(op) ==
    {i \in DOMAIN threads.log : threads.log[i].op = op /\ threads.log[i].raised = None}

\* C16: with the lock of the Flight held across each whole call, at most one
\* caller is inside a call, no write of a call replaces a passenger, and
\* between calls the number of occupied seats is the number of allocations
\* that succeeded; without the lock this fails (C16_Witness).
C16_LockedAllocation ==
    threads.locking =>
        /\ Cardinality(Busy) <= 1
        /\ \A i \in DOMAIN threads.log : threads.log[i].overwrote = None
        /\ Busy = {} =>
                num_seats(aircraft) - num_seats_available =
                    Cardinality(Returned("allocate_seat"))

\* without the lock: two allocations of seat 1A, by two callers, that both
\* ran the check of line 71 before either ran the write of line 74; both
\* succeeded, the second replaced the passenger of the first, and one seat
\* is occupied
C16_Witness ==
    /\ ~threads.locking
    /\ Busy = {}
    /\ Len(threads.log) = 2
    /\ Returned("allocate_seat") = {1, 2}
    /\ threads.log[1].thread # threads.log[2].thread
    /\ threads.log[1].args[1] = <<"1", "A">>
    /\ threads.log[2].args[1] = <<"1", "A">>
    /\ threads.log[1].args[2] = "Alice"
    /\ threads.log[2].args[2] = "Bob"
    /\ threads.log[1].overwrote = None
    /\ threads.log[2].overwrote = "Alice"
    /\ seating[1]["A"] = "Bob"
    /\ num_seats_available = num_seats(aircraft) - 1

-----------------------------------------------------------------------------
(* Passengers with more than one seat, under SpecCards *)

\* the number of the cards of the last call that bear passenger p
CardsOf(p) == Cardinality({i \in 1..Len(printed) : printed[i][1] = p})

\* C17: allocate_seat(s, p) on an empty seat s of the plan succeeds also when
\* p holds one or more seats already, and p then holds one seat more; and
\* make_boarding_cards makes, for every passenger, as many cards as the
\* passenger holds seats.
C17_SeatOnly ==
    /\ (/\ Allocated
        /\ IsPlanSeat(last.args[1])
        /\ Occupant(before, last.args[1]) = None
        /\ SeatsOf(before, last.args[2]) >= 1) =>
            /\ Succeeded
            /\ Occupant(seating, last.args[1]) = last.args[2]
            /\ SeatsOf(seating, last.args[2]) = SeatsOf(before, last.args[2]) + 1
    /\ last.op = "make_boarding_cards" =>
            \A p \in Passengers : CardsOf(p) = SeatsOf(seating, p)

\* Alice holds 1A and 10A, Bob holds 2A: two cards for Alice, one for Bob
C17_Witness ==
    /\ last.op = "make_boarding_cards"
    /\ aircraft = "AirbusA319"
    /\ seating[1]["A"] = "Alice"
    /\ seating[10]["A"] = "Alice"
    /\ seating[2]["A"] = "Bob"
    /\ SeatsOf(seating, "Alice") = 2
    /\ CardsOf("Alice") = 2
    /\ CardsOf("Bob") = 1

-----------------------------------------------------------------------------
(* The order of the checks of seat parsing, under SpecParse *)

\* C18: a designator whose last character is no letter of the plan and whose
\* prefix is no row of the plan (no integer, or an integer outside the rows)
\* fails with InvalidSeatLetter; and a parse fails with InvalidSeatRow only
\* if the last character of the designator is a letter of the plan.
C18_LetterFirst ==
    last.op = "_parse_seat" =>
        LET d == last.args[1]
            prefix == SubSeq(d, 1, Len(d) - 1)
        IN  /\ ( /\ Len(d) > 0
                 /\ d[Len(d)] \notin PlanLetterSet
                 /\ \/ int(prefix).raised # None
                    \/ int(prefix).value \notin PlanRowSet ) =>
                    last.raised = InvalidSeatLetterMsg
            /\ last.raised \in InvalidSeatRow =>
                    (Len(d) > 0 /\ d[Len(d)] \in PlanLetterSet)

\* '99Z' was parsed on the Airbus of make_flights: row 99 and letter Z are
\* both outside its plan, and the letter is reported
C18_Witness ==
    /\ last.op = "_parse_seat"
    /\ last.args = << <<"9", "9", "Z">> >>
    /\ aircraft = "AirbusA319"
    /\ int(<<"9", "9">>).value = 99
    /\ 99 \notin PlanRowSet
    /\ "Z" \notin PlanLetterSet
    /\ last.raised = InvalidSeatLetterMsg

====
